---- MODULE Spec2Model ----
(***************************************************************************)
(* Model of the document query-retrieval demo:                             *)
(*   - the question orchestrators MultiAIService (api/ai/process/route.ts) *)
(*     and EnhancedLLMService (the hackrx/run route), with the page        *)
(*     handler that consumes the response;                                 *)
(*   - the in-memory VectorDatabase of api/vector/search/route.ts;         *)
(*   - EnhancedDocumentProcessor.intelligentChunking.                      *)
(* Numbers that the code keeps as floats are kept as scaled integers:      *)
(* confidence in thousandths, cost in units of 10^-7 dollar, scores and    *)
(* random draws in hundredths / tenths.                                    *)
(***************************************************************************)
EXTENDS Integers, Sequences, FiniteSets, TLC

\* ------------------------------------------------------------------------
\* Bounds of the model
\* ------------------------------------------------------------------------
MaxQuestions == 3

\* ------------------------------------------------------------------------
\* Generic helpers
\* ------------------------------------------------------------------------
Min(a, b) == IF a <= b THEN a ELSE b

Max(a, b) == IF a >= b THEN a ELSE b

SeqsUpTo(S, n) == UNION {[1..m -> S] : m \in 0..n}

RECURSIVE SumTokens(_)
SumTokens(rs) == IF rs = <<>> THEN 0 ELSE Head(rs).tokens_used + SumTokens(Tail(rs))

RECURSIVE SumCost(_)
SumCost(rs) == IF rs = <<>> THEN 0 ELSE Head(rs).cost_estimate + SumCost(Tail(rs))

\* ------------------------------------------------------------------------
\* Inputs of a question request
\* ------------------------------------------------------------------------
\* An element of the questions array that is not a string (the routes only
\* check Array.isArray(questions)); question.toLowerCase() throws on it.
NonString == "<non-string>"

QuestionValues == {"grace period?", "claim procedure?", NonString}

IsString(q) == q # NonString

QuestionLen(q) == CASE q = "grace period?" -> 13
                    [] q = "claim procedure?" -> 16
                    [] OTHER -> 0

\* the template keywords that occur in question.toLowerCase()
QuestionWords(q) == CASE q = "grace period?" -> {"grace"}
                      [] q = "claim procedure?" -> {"claim", "procedure"}
                      [] OTHER -> {}

\* a model both services configure and one neither does
Models == {"gpt-4", "llama-2"}

\* names every object literal inherits from Object.prototype; obj[name] is
\* then not undefined ("constructor" is the function Object)
ObjectPrototypeKeys == {"constructor"}

\* options.domain is taken from the request body as it comes
Domains == {"insurance", "medical", "constructor"}

\* a document of the request is kept by its name; Undefined is a null entry
DocumentLists == {<<"policy.pdf">>}

SessionId == "s1"

Services == {"MultiAI", "EnhancedLLM"}

Undefined == "undefined"

\* random draws of one question, in tenths (Math.random() = d / 10): the
\* draw of the confidence and the draw of determineComplianceStatus
RandomDraws == {<<0, 2>>, <<9, 8>>}

\* ------------------------------------------------------------------------
\* MultiAIService: provider and model configuration
\* ------------------------------------------------------------------------
getProviderFromModel(modelId) ==
    CASE modelId \in {"gpt-4", "gpt-4-turbo", "gpt-3.5-turbo"} -> "openai"
      [] modelId \in {"claude-3", "claude-3-opus", "claude-3-sonnet", "claude-3-haiku"} -> "anthropic"
      [] modelId \in {"gemini-pro", "gemini-ultra"} -> "google"
      [] modelId \in {"mistral-large", "mistral-medium"} -> "mistral"
      [] modelId \in {"cohere-command-r-plus", "cohere-command-r"} -> "cohere"
      [] OTHER -> "openai"

\* costPer1kTokens / 1000, in units of 10^-7 dollar per token
AI_PROVIDERS ==
    [openai |-> [x \in {"gpt-4-turbo", "gpt-4", "gpt-3.5-turbo"} |->
                    CASE x = "gpt-4-turbo" -> 300 [] x = "gpt-4" -> 600 [] OTHER -> 20],
     anthropic |-> [x \in {"claude-3-opus", "claude-3-sonnet", "claude-3-haiku"} |->
                    CASE x = "claude-3-opus" -> 750 [] x = "claude-3-sonnet" -> 150 [] OTHER -> 25],
     google |-> [x \in {"gemini-pro", "gemini-ultra"} |->
                    CASE x = "gemini-pro" -> 25 [] OTHER -> 500],
     mistral |-> [x \in {"mistral-large", "mistral-medium"} |->
                    CASE x = "mistral-large" -> 240 [] OTHER -> 65],
     cohere |-> [x \in {"cohere-command-r-plus", "cohere-command-r"} |->
                    CASE x = "cohere-command-r-plus" -> 150 [] OTHER -> 50]]

\* AI_PROVIDERS[provider]?.models[modelId]; defined = FALSE is undefined
getModelConfig(modelId) ==
    LET provider == getProviderFromModel(modelId)
    IN IF modelId \in DOMAIN AI_PROVIDERS[provider]
       THEN [defined |-> TRUE, costPerToken |-> AI_PROVIDERS[provider][modelId]]
       ELSE [defined |-> FALSE, costPerToken |-> 0]

\* EnhancedLLMService.models: cost_per_token in units of 10^-7 dollar
EnhancedModels == [x \in {"gpt-4", "gpt-3.5-turbo", "claude-3", "gemini-pro"} |->
                    CASE x = "gpt-4" -> 300 [] x = "gpt-3.5-turbo" -> 20
                      [] x = "claude-3" -> 250 [] OTHER -> 100]

\* ------------------------------------------------------------------------
\* Answer templates (lengths in characters, as the template strings have)
\* ------------------------------------------------------------------------
\* providerEnhancements[provider].length, default "using advanced AI processing"
EnhancementLen(provider) ==
    CASE provider = "openai" -> 51 [] provider = "anthropic" -> 79
      [] provider = "google" -> 44 [] provider = "mistral" -> 56
      [] provider = "cohere" -> 64 [] OTHER -> 28

\* Object.entries order of the template table of a domain; len is the length
\* of the template without the ${enhancement} placeholder
MultiDomainResponses ==
    [insurance |-> <<
        [key |-> "grace|premium|payment", words |-> {"grace", "premium", "payment"}, len |-> 457],
        [key |-> "maternity|pregnancy|childbirth", words |-> {"maternity", "pregnancy", "childbirth"}, len |-> 496],
        [key |-> "pre-existing|waiting|disease", words |-> {"pre-existing", "waiting", "disease"}, len |-> 438],
        [key |-> "room|rent|limit|icu", words |-> {"room", "rent", "limit", "icu"}, len |-> 402],
        [key |-> "claim|procedure|settlement", words |-> {"claim", "procedure", "settlement"}, len |-> 431],
        [key |-> "exclusion|not covered|limitation", words |-> {"exclusion", "not covered", "limitation"}, len |-> 492],
        [key |-> "default", words |-> {}, len |-> 388] >>,
     legal |-> <<
        [key |-> "contract|agreement|terms", words |-> {"contract", "agreement", "terms"}, len |-> 417],
        [key |-> "liability|responsibility|obligation", words |-> {"liability", "responsibility", "obligation"}, len |-> 401],
        [key |-> "default", words |-> {}, len |-> 404] >>,
     hr |-> <<
        [key |-> "leave|vacation|time off", words |-> {"leave", "vacation", "time off"}, len |-> 371],
        [key |-> "performance|evaluation|review", words |-> {"performance", "evaluation", "review"}, len |-> 348],
        [key |-> "default", words |-> {}, len |-> 357] >>]

EnhancedDomainResponses ==
    [insurance |-> <<
        [key |-> "grace|premium|payment", words |-> {"grace", "premium", "payment"}, len |-> 439],
        [key |-> "maternity|pregnancy|childbirth", words |-> {"maternity", "pregnancy", "childbirth"}, len |-> 463],
        [key |-> "pre-existing|waiting|disease", words |-> {"pre-existing", "waiting", "disease"}, len |-> 409],
        [key |-> "room|rent|limit|icu", words |-> {"room", "rent", "limit", "icu"}, len |-> 384],
        [key |-> "claim|procedure|settlement", words |-> {"claim", "procedure", "settlement"}, len |-> 400],
        [key |-> "exclusion|not covered|limitation", words |-> {"exclusion", "not covered", "limitation"}, len |-> 464],
        [key |-> "ayush|alternative|homeopathy", words |-> {"ayush", "alternative", "homeopathy"}, len |-> 363],
        [key |-> "ambulance|emergency|transportation", words |-> {"ambulance", "emergency", "transportation"}, len |-> 368],
        [key |-> "default", words |-> {}, len |-> 508] >>,
     legal |-> <<
        [key |-> "contract|agreement|terms", words |-> {"contract", "agreement", "terms"}, len |-> 392],
        [key |-> "liability|responsibility|obligation", words |-> {"liability", "responsibility", "obligation"}, len |-> 364],
        [key |-> "jurisdiction|governing law|dispute", words |-> {"jurisdiction", "governing law", "dispute"}, len |-> 358],
        [key |-> "compliance|regulatory|legal requirement", words |-> {"compliance", "regulatory", "legal requirement"}, len |-> 340],
        [key |-> "default", words |-> {}, len |-> 385] >>,
     hr |-> <<
        [key |-> "leave|vacation|time off", words |-> {"leave", "vacation", "time off"}, len |-> 349],
        [key |-> "performance|evaluation|review", words |-> {"performance", "evaluation", "review"}, len |-> 318],
        [key |-> "benefits|compensation|salary", words |-> {"benefits", "compensation", "salary"}, len |-> 305],
        [key |-> "training|development|career", words |-> {"training", "development", "career"}, len |-> 324],
        [key |-> "default", words |-> {}, len |-> 338] >>]

\* domainResponses[domain] || domainResponses.insurance
getDomainResponses(service, domain) ==
    LET table == IF service = "MultiAI" THEN MultiDomainResponses ELSE EnhancedDomainResponses
    IN IF domain \in DOMAIN table THEN table[domain]
       ELSE IF domain \in ObjectPrototypeKeys THEN <<>>
       ELSE table.insurance

\* the template the loop over Object.entries(responses) selects: the first
\* non-default entry one of whose keywords occurs in the question, else default
SelectedResponse(service, question, domain) ==
    LET responses == getDomainResponses(service, domain)
        hits == {n \in 1..Len(responses) :
                    /\ responses[n].key # "default"
                    /\ responses[n].words \cap QuestionWords(question) # {}}
    IN IF responses = <<>>
       THEN [key |-> Undefined, words |-> {}, len |-> 0]
       ELSE IF hits = {}
       THEN responses[Len(responses)]
       ELSE responses[CHOOSE n \in hits : \A m \in hits : n <= m]

\* reasoningTemplates[domain].length (|| insurance)
ReasoningLen(service, domain, provider, modelId) ==
    LET d == IF domain \in {"insurance", "legal", "hr"} THEN domain ELSE "insurance"
        modelLen == CASE modelId = "gpt-4" -> 5 [] modelId = "llama-2" -> 7 [] OTHER -> 0
        providerReasoning ==
            CASE provider = "openai" -> 78 + modelLen
              [] provider = "anthropic" -> 86 + modelLen
              [] provider = "google" -> 74 + modelLen
              [] provider = "mistral" -> 70 + modelLen
              [] provider = "cohere" -> 82 + modelLen
              [] OTHER -> 28
    IN IF service = "MultiAI"
       THEN (CASE d = "insurance" -> 529 [] d = "legal" -> 374 [] OTHER -> 377) + providerReasoning
       ELSE (CASE d = "insurance" -> 527 [] d = "legal" -> 452 [] OTHER -> 375)

\* Math.ceil(text.length / 4)
estimateTokens(textLength) == (textLength + 3) \div 4

\* determineComplianceStatus, r = Math.random() in tenths
determineComplianceStatus(r) ==
    IF r > 7 THEN "compliant"
    ELSE IF r > 4 THEN "unclear"
    ELSE "requires_review"

\* providerConfidenceBoost[provider] || 0.05, in thousandths
providerConfidenceBoost(provider) ==
    CASE provider = "openai" -> 80 [] provider = "anthropic" -> 100
      [] provider = "google" -> 60 [] provider = "mistral" -> 50
      [] provider = "cohere" -> 70 [] OTHER -> 50

\* a confidence whose random term is not scaled down
Confidence_RandomUnscaled(service, provider, r) ==
    IF service = "MultiAI"
    THEN 820 + providerConfidenceBoost(provider) + r * 100
    ELSE 820 + r * 100

\* confidence in thousandths, r = Math.random() in tenths
Confidence(service, provider, r) ==
    IF service = "MultiAI"
    THEN Min(980, 820 + providerConfidenceBoost(provider) + r * 5)
    ELSE 820 + r * 15

\* generateSources: domainSources[domain] || domainSources.insurance, then
\* additionalSources.slice(0, 3); an inherited name gives a value that is
\* not undefined and has no slice, and the call throws a TypeError
SourcesThrow(domain) == domain \in ObjectPrototypeKeys

\* generateContextualResponse throws a TypeError when the question is not a
\* string (question.toLowerCase), a document is null/undefined (doc.name) or
\* generateSources throws
ResponseThrows(question, documents, domain) ==
    \/ ~IsString(question)
    \/ \E n \in 1..Len(documents) : documents[n] = Undefined
    \/ SourcesThrow(domain)

generateContextualResponse(service, question, domain, provider, modelId, rConf, rComp) ==
    LET selected == SelectedResponse(service, question, domain)
    IN [answer |-> selected.key,
        answerLen |-> IF service = "MultiAI" THEN selected.len + EnhancementLen(provider)
                      ELSE selected.len,
        reasoningLen |-> ReasoningLen(service, domain, provider, modelId),
        confidence |-> Confidence(service, provider, rConf),
        compliance_status |-> determineComplianceStatus(rComp)]


\* ------------------------------------------------------------------------
\* State
\* ------------------------------------------------------------------------
VARIABLES
    svc,          \* the service whose processQuestions is running
    questions,    \* its questions argument
    documents,    \* its documents argument
    options,      \* its options argument
    pqPc,         \* processQuestions: "idle", "running", "returned", "threw"
    loopIndex,    \* the loop variable i of the sequential branch (0-based)
    taskState,    \* per question: the promise of processIndividualQuestion
    taskValue,    \* the value each resolved promise resolved to
    settleOrder,  \* the questions (1-based) in the order their promises settled
    results,      \* the local results array of processQuestions
    response,     \* what processQuestions returned or threw
    stats         \* ProcessingStats set by the page after a response

sessionVars == <<svc, questions, documents, options, pqPc, loopIndex,
                 taskState, taskValue, settleOrder, results, response, stats>>

NoOptions == [model |-> "", domain |-> "", batch_mode |-> FALSE]

NoResponse == [kind |-> "none", results |-> <<>>,
               metadata |-> [total_questions |-> 0, total_tokens |-> 0, total_cost |-> 0,
                             model_used |-> "", batch_mode |-> FALSE],
               message |-> <<>>]

NoStats == [set |-> FALSE, total_questions |-> 0, success_rate |-> <<0, 1>>]

SessionInit ==
    /\ svc = "none"
    /\ questions = <<>>
    /\ documents = <<>>
    /\ options = NoOptions
    /\ pqPc = "idle"
    /\ loopIndex = 0
    /\ taskState = <<>>
    /\ taskValue = <<>>
    /\ settleOrder = <<>>
    /\ results = <<>>
    /\ response = NoResponse
    /\ stats = NoStats

\* ------------------------------------------------------------------------
\* processIndividualQuestion
\* ------------------------------------------------------------------------
\* the record of a question that was processed normally
AnswerRecord(service, question, index, opts, rConf, rComp) ==
    LET provider == IF service = "MultiAI" THEN getProviderFromModel(opts.model) ELSE Undefined
        r == generateContextualResponse(service, question, opts.domain, provider,
                                        opts.model, rConf, rComp)
        tokensUsed == estimateTokens(QuestionLen(question) + r.answerLen + r.reasoningLen)
        costPerToken == IF service = "MultiAI"
                        THEN getModelConfig(opts.model).costPerToken
                        ELSE EnhancedModels[opts.model]
    IN [id |-> <<SessionId, index, "">>,
        question |-> question,
        answer |-> r.answer,
        confidence |-> r.confidence,
        compliance_status |-> r.compliance_status,
        tokens_used |-> tokensUsed,
        cost_estimate |-> tokensUsed * costPerToken,
        model_used |-> opts.model,
        error |-> FALSE]

\* the record the catch block of MultiAIService.processIndividualQuestion returns
ErrorRecord(question, index, opts) ==
    [id |-> <<SessionId, index, "error">>,
     question |-> question,
     answer |-> "I apologize, but I encountered an error",
     confidence |-> 0,
     compliance_status |-> Undefined,
     tokens_used |-> 0,
     cost_estimate |-> 0,
     model_used |-> opts.model,
     error |-> TRUE]

\* does the body of processIndividualQuestion after its delay throw?
IndividualThrows(service, question, docs, opts) ==
    \/ ResponseThrows(question, docs, opts.domain)
    \/ service = "EnhancedLLM" /\ opts.model \notin DOMAIN EnhancedModels

\* MultiAIService wraps the body in try/catch and returns the error record;
\* EnhancedLLMService has no try/catch, its promise rejects
IndividualCatches(service) == service = "MultiAI"

\* the timers of MultiAIService all have the delay getProcessingDelay gives
\* for the model, so they fire in the order they were set; the delay of
\* EnhancedLLMService is 800 + Math.random() * 1200 per question
TimerMayFire(service, states, k) ==
    /\ states[k] = "waiting"
    /\ service = "MultiAI" => \A j \in 1..(k - 1) : states[j] # "waiting"

\* the timer of question k (1-based here, index k - 1 in the code) fires and
\* the rest of processIndividualQuestion runs
TimerFires(k) ==
    /\ k \in DOMAIN taskState
    /\ TimerMayFire(svc, taskState, k)
    /\ IF IndividualThrows(svc, questions[k], documents, options)
       THEN IF IndividualCatches(svc)
            THEN /\ taskState' = [taskState EXCEPT ![k] = "resolved"]
                 /\ taskValue' = [j \in DOMAIN taskValue \cup {k} |->
                                    IF j = k THEN ErrorRecord(questions[k], k - 1, options)
                                    ELSE taskValue[j]]
            ELSE /\ taskState' = [taskState EXCEPT ![k] = "rejected"]
                 /\ UNCHANGED taskValue
       ELSE \E r \in RandomDraws :
                /\ taskState' = [taskState EXCEPT ![k] = "resolved"]
                /\ taskValue' = [j \in DOMAIN taskValue \cup {k} |->
                                    IF j = k
                                    THEN AnswerRecord(svc, questions[k], k - 1, options, r[1], r[2])
                                    ELSE taskValue[j]]
    /\ settleOrder' = Append(settleOrder, k)
    /\ UNCHANGED <<svc, questions, documents, options, pqPc, loopIndex, results, response, stats>>

\* ------------------------------------------------------------------------
\* processQuestions
\* ------------------------------------------------------------------------
\* the bug of collecting the values as the promises settle
PromiseAllValues_InSettleOrder(values, order) == [j \in 1..Len(order) |-> values[order[j]]]

\* Promise.all(batchPromises): the array of the resolved values, by position
\* in batchPromises, whatever the order in which the promises settled
PromiseAllValues(values, order) == [j \in 1..Len(order) |-> values[j]]

\* the bug of counting the answered questions instead of the submitted ones
ReturnValue_CountsAnswered(rs, qs, opts) ==
    [kind |-> "ok",
     results |-> rs,
     metadata |-> [total_questions |-> Cardinality({n \in DOMAIN rs : ~rs[n].error}),
                   total_tokens |-> SumTokens(rs),
                   total_cost |-> SumCost(rs),
                   model_used |-> opts.model,
                   batch_mode |-> opts.batch_mode],
     message |-> <<>>]

\* the object processQuestions returns
ReturnValue(rs, qs, opts) ==
    [kind |-> "ok",
     results |-> rs,
     metadata |-> [total_questions |-> Len(qs),
                   total_tokens |-> SumTokens(rs),
                   total_cost |-> SumCost(rs),
                   model_used |-> opts.model,
                   batch_mode |-> opts.batch_mode],
     message |-> <<>>]

ThrownError(service, cause) ==
    [NoResponse EXCEPT !.kind = "error",
                       !.message = <<IF service = "MultiAI" THEN "Multi-AI processing failed"
                                     ELSE "Question processing failed">> \o cause]

\* the bug of not awaiting in the for loop: every question is started at once
StartedAtCall_All(n, batch_mode) == [j \in 1..n |-> "waiting"]

\* the promises created before the first await of processQuestions: all of
\* them by questions.map in batch mode, that of questions[0] in the for loop
StartedAtCall(n, batch_mode) ==
    IF batch_mode
    THEN [j \in 1..n |-> "waiting"]
    ELSE [j \in 1..n |-> IF j = 1 THEN "waiting" ELSE "unstarted"]

\* the call, up to its first await
processQuestions(service, qs, docs, opts) ==
    /\ pqPc = "idle"
    /\ svc' = service
    /\ questions' = qs
    /\ documents' = docs
    /\ options' = opts
    /\ results' = <<>>
    /\ taskValue' = <<>>
    /\ settleOrder' = <<>>
    /\ loopIndex' = 0
    /\ IF service = "MultiAI" /\ ~getModelConfig(opts.model).defined
       THEN /\ pqPc' = "threw"
            /\ response' = ThrownError(service, <<"Unsupported model", opts.model>>)
            /\ taskState' = [j \in 1..Len(qs) |-> "unstarted"]
       ELSE /\ pqPc' = "running"
            /\ response' = NoResponse
            /\ taskState' = StartedAtCall(Len(qs), opts.batch_mode)
    /\ UNCHANGED stats

\* batch mode: Promise.all fulfilled, results.push(...batchResults), return
BatchResume ==
    /\ pqPc = "running"
    /\ options.batch_mode
    /\ \A j \in DOMAIN taskState : taskState[j] = "resolved"
    /\ results' = results \o PromiseAllValues(taskValue, settleOrder)
    /\ response' = ReturnValue(results', questions, options)
    /\ pqPc' = "returned"
    /\ UNCHANGED <<svc, questions, documents, options, loopIndex, taskState, taskValue,
                   settleOrder, stats>>

\* batch mode: Promise.all rejects as soon as one promise rejects; the catch
\* block throws, the other timers stay armed
BatchReject ==
    /\ pqPc = "running"
    /\ options.batch_mode
    /\ \E j \in DOMAIN taskState : taskState[j] = "rejected"
    /\ response' = ThrownError(svc, <<"TypeError">>)
    /\ pqPc' = "threw"
    /\ UNCHANGED <<svc, questions, documents, options, loopIndex, taskState, taskValue,
                   settleOrder, results, stats>>

\* sequential mode: the awaited promise of question i settled
SequentialResume ==
    /\ pqPc = "running"
    /\ ~options.batch_mode
    /\ IF loopIndex >= Len(questions)
       THEN \* the loop does not run (empty list)
            /\ response' = ReturnValue(results, questions, options)
            /\ pqPc' = "returned"
            /\ UNCHANGED <<results, loopIndex, taskState>>
       ELSE /\ taskState[loopIndex + 1] \in {"resolved", "rejected"}
            /\ IF taskState[loopIndex + 1] = "rejected"
               THEN /\ response' = ThrownError(svc, <<"TypeError">>)
                    /\ pqPc' = "threw"
                    /\ UNCHANGED <<results, loopIndex, taskState>>
               ELSE /\ results' = Append(results, taskValue[loopIndex + 1])
                    /\ loopIndex' = loopIndex + 1
                    /\ IF loopIndex' < Len(questions)
                       THEN /\ taskState' = [taskState EXCEPT ![loopIndex' + 1] = "waiting"]
                            /\ UNCHANGED <<response, pqPc>>
                       ELSE /\ response' = ReturnValue(results', questions, options)
                            /\ pqPc' = "returned"
                            /\ UNCHANGED taskState
    /\ UNCHANGED <<svc, questions, documents, options, taskValue, settleOrder, stats>>

\* ------------------------------------------------------------------------
\* The page: handleSingleModelAnalysis after the fetch of /api/ai/process
\* ------------------------------------------------------------------------
\* success_rate as a fraction <<numerator, denominator>>
PageSuccessRate == <<95, 100>>

handleSingleModelAnalysis ==
    /\ svc = "MultiAI"
    /\ pqPc = "returned"
    /\ ~stats.set
    /\ \A j \in DOMAIN questions : IsString(questions[j])
    /\ stats' = [set |-> TRUE,
                 total_questions |-> Len(questions),
                 success_rate |-> PageSuccessRate]
    /\ UNCHANGED <<svc, questions, documents, options, pqPc, loopIndex,
                   taskState, taskValue, settleOrder, results, response>>

SessionNext ==
    \/ \E service \in Services, qs \in SeqsUpTo(QuestionValues, MaxQuestions),
          docs \in DocumentLists, m \in Models, d \in Domains, b \in BOOLEAN :
            processQuestions(service, qs, docs, [model |-> m, domain |-> d, batch_mode |-> b])
    \/ \E k \in 1..MaxQuestions : TimerFires(k)
    \/ BatchResume
    \/ BatchReject
    \/ SequentialResume
    \/ handleSingleModelAnalysis

\* most questions of one batch request
MaxFanOut == 11

\* a batch request of MultiAIService with many questions
FanOutQuestions == {[j \in 1..n |-> "grace period?"] : n \in 1..MaxFanOut}

FanOutNext ==
    \/ \E qs \in FanOutQuestions, docs \in DocumentLists, m \in Models, d \in Domains :
            processQuestions("MultiAI", qs, docs, [model |-> m, domain |-> d, batch_mode |-> TRUE])
    \/ \E k \in 1..MaxFanOut : TimerFires(k)
    \/ BatchResume

\* ------------------------------------------------------------------------
\* VectorDatabase (api/vector/search/route.ts)
\* ------------------------------------------------------------------------
MaxTopK == 6

\* topK of a request: none, one, fewer than stored, more than seeded
TopKs == {0, 1, 3, MaxTopK}

\* length of the mock embeddings
EmbeddingLength == 1536

\* A number[] is kept as [length, fill]: the array of that length whose
\* components all equal fill.
Embedding(n, c) == [length |-> n, fill |-> c]

\* the embeddings Math.random() gives the five sample chunks
SeedEmbeddings == {<<1, 2, 3, 4, 5>>}

\* the query embedding Math.random() gives a request: its components all
\* equal this value (one that a seeded entry may have, one that none has)
QueryFills == {1, 9}

\* mock similarity scores Math.random() * 0.3 + 0.7, in hundredths
ScoreDraws == {70, 85}

sampleChunks ==
    << [id |-> "chunk_1", metadata |-> [type |-> "payment_terms", section |-> "grace_period",
                                         text |-> "Grace period of thirty days"]],
       [id |-> "chunk_2", metadata |-> [type |-> "coverage_terms", section |-> "pre_existing",
                                         text |-> "Waiting period of thirty-six months"]],
       [id |-> "chunk_3", metadata |-> [type |-> "coverage_benefits", section |-> "maternity",
                                         text |-> "Maternity expenses covered"]],
       [id |-> "chunk_4", metadata |-> [type |-> "coverage_terms", section |-> "cataract",
                                         text |-> "Specific waiting period of two years"]],
       [id |-> "chunk_5", metadata |-> [type |-> "coverage_benefits", section |-> "organ_donor",
                                         text |-> "Medical expenses for organ donor"]] >>

\* entries a caller may upsert: an id already stored or a new one, an
\* embedding of the index's length or of another length
UpsertEntries ==
    {[id |-> i, values |-> Embedding(n, 7), metadata |-> m] :
        i \in {"chunk_1", "chunk_9"},
        n \in {EmbeddingLength, 3},
        m \in {[type |-> "coverage_terms", section |-> "grace_period", text |-> "Revised grace period"]}}

MaxBatch == 1

UpsertBatches == UNION {[1..m -> UpsertEntries] : m \in 0..MaxBatch}

\* a batch that replaces a stored entry and adds a new one, and a batch of
\* the new one alone
InterleavedBatches ==
    LET m == [type |-> "coverage_terms", section |-> "grace_period", text |-> "Revised grace period"]
        e(i) == [id |-> i, values |-> Embedding(EmbeddingLength, 7), metadata |-> m]
    IN {<<e("chunk_1"), e("chunk_9")>>, <<e("chunk_9")>>}

\* metadata filters of a search request, as sets of <<key, value>>
FilterSets == { {},
                {<<"type", "coverage_terms">>},
                {<<"type", "coverage_terms">>, <<"section", "cataract">>} }

VARIABLES
    dbInstance,   \* VectorDatabase.instance is set
    vectors,      \* the Map this.vectors, as its entries in insertion order
    dbLast,       \* the last call on the database and the entries before it
    searchOut     \* the search request being answered: what query returned, what is sent

vectorVars == <<dbInstance, vectors, dbLast, searchOut>>

NoCall == [op |-> "none", batch |-> <<>>, before |-> <<>>, repeated |-> FALSE]

NoSearch == [status |-> 0, topK |-> 0, filters |-> {}, queryEmbedding |-> Embedding(0, 0),
             indexAtQuery |-> <<>>, scored |-> <<>>,
             searchResults |-> <<>>, results |-> <<>>, total_results |-> 0]

VectorInit ==
    /\ dbInstance = FALSE
    /\ vectors = <<>>
    /\ dbLast = NoCall
    /\ searchOut = NoSearch

Ids(entries) == {entries[n].id : n \in DOMAIN entries}

IndexOfId(entries, id) == CHOOSE n \in DOMAIN entries : entries[n].id = id

\* the bug of keeping the entries in a list and pushing every upserted one
MapSet_Push(entries, v) == Append(entries, v)

\* Map.prototype.set: replace the value under a present key (the key keeps
\* its place in the iteration order), append under a new key
MapSet(entries, v) ==
    IF v.id \in Ids(entries)
    THEN [entries EXCEPT ![IndexOfId(entries, v.id)] = v]
    ELSE Append(entries, v)

\* initializeWithSampleData
initializeWithSampleData(seed) ==
    [n \in 1..Len(sampleChunks) |->
        [id |-> sampleChunks[n].id,
         values |-> Embedding(EmbeddingLength, seed[n]),
         metadata |-> sampleChunks[n].metadata]]

\* a getInstance that makes and seeds an instance on every call
getInstance_AlwaysSeeds(seed) == initializeWithSampleData(seed)

\* the entries after getInstance(): seeded on the first call only
getInstance(seed) == IF dbInstance THEN vectors ELSE initializeWithSampleData(seed)

\* vectors.forEach(vector => this.vectors.set(vector.id, vector))
RECURSIVE UpsertAll(_, _)
UpsertAll(entries, batch) ==
    IF batch = <<>> THEN entries
    ELSE UpsertAll(MapSet(entries, Head(batch)), Tail(batch))

\* Array.prototype.sort((a, b) => b.score - a.score): stable, descending
RECURSIVE InsertByScore(_, _)
InsertByScore(sorted, r) ==
    IF sorted = <<>> THEN <<r>>
    ELSE IF Head(sorted).score >= r.score
         THEN <<Head(sorted)>> \o InsertByScore(Tail(sorted), r)
         ELSE <<r>> \o sorted

RECURSIVE SortByScore(_)
SortByScore(rs) ==
    IF rs = <<>> THEN <<>>
    ELSE InsertByScore(SortByScore(SubSeq(rs, 1, Len(rs) - 1)), rs[Len(rs)])

\* the bug of cutting one element late
Slice_OneTooMany(rs, topK) == SubSeq(rs, 1, Min(topK + 1, Len(rs)))

\* Array.prototype.slice(0, topK) for topK >= 0
Slice(rs, topK) == SubSeq(rs, 1, Min(topK, Len(rs)))

\* VectorDatabase.query: every entry gets a random score (scores[n] for the
\* n-th entry), the list is sorted by score and cut to topK
Scored(entries, scores) ==
    [n \in 1..Len(entries) |->
        [id |-> entries[n].id, values |-> entries[n].values,
         metadata |-> entries[n].metadata, score |-> scores[n]]]

\* queryEmbedding is not used
query(entries, queryEmbedding, scores, topK) == Slice(SortByScore(Scored(entries, scores)), topK)

\* the filter callback of POST
MatchesFilters(result, filters) ==
    \A f \in filters : f[1] \in DOMAIN result.metadata /\ result.metadata[f[1]] = f[2]

RECURSIVE FilterResults(_, _)
FilterResults(rs, filters) ==
    IF rs = <<>> THEN <<>>
    ELSE IF MatchesFilters(Head(rs), filters)
         THEN <<Head(rs)>> \o FilterResults(Tail(rs), filters)
         ELSE FilterResults(Tail(rs), filters)

\* POST /api/vector/search with a query text: the query embedding,
\* getInstance, query, filter, then the handler waits for generateText (which
\* may fail) before it responds
SearchPOST(seed, fill, scores, topK, filters, generateOk) ==
    LET entries == getInstance(seed)
        queryEmbedding == Embedding(EmbeddingLength, fill)
        searchResults == query(entries, queryEmbedding, scores, topK)
        filteredResults == FilterResults(searchResults, filters)
    IN /\ searchOut = NoSearch
       /\ dbInstance' = TRUE
       /\ vectors' = entries
       /\ dbLast' = [op |-> "query", batch |-> <<>>, before |-> entries, repeated |-> FALSE]
       /\ searchOut' = IF generateOk
                       THEN [status |-> 200, topK |-> topK, filters |-> filters,
                             queryEmbedding |-> queryEmbedding,
                             indexAtQuery |-> entries,
                             scored |-> Scored(entries, scores),
                             searchResults |-> searchResults,
                             results |-> filteredResults,
                             total_results |-> Len(filteredResults)]
                       ELSE [status |-> 500, topK |-> topK, filters |-> filters,
                             queryEmbedding |-> queryEmbedding,
                             indexAtQuery |-> entries,
                             scored |-> Scored(entries, scores),
                             searchResults |-> searchResults,
                             results |-> <<>>, total_results |-> 0]

\* POST without a query text: 400 before the database is touched
SearchPOSTNoQuery ==
    /\ searchOut = NoSearch
    /\ searchOut' = [NoSearch EXCEPT !.status = 400]
    /\ UNCHANGED <<dbInstance, vectors, dbLast>>

\* the bug of awaiting inside the loop: the entries after the first are
\* stored only after other requests have run
upsert_AwaitsBetweenEntries(seed, batch) ==
    LET entries == getInstance(seed)
    IN /\ searchOut.status # 400
       /\ dbInstance' = TRUE
       /\ vectors' = IF batch = <<>> THEN entries ELSE MapSet(entries, Head(batch))
       /\ dbLast' = [op |-> "upsert", batch |-> batch, before |-> entries,
                     repeated |-> (dbLast.op = "upsert" /\ dbLast.batch = batch)]
       /\ UNCHANGED searchOut

\* VectorDatabase.getInstance().upsert(batch): the forEach runs to its end
\* without an await; the call may come while a search request waits for
\* generateText
upsert(seed, batch) ==
    LET entries == getInstance(seed)
    IN /\ searchOut.status # 400
       /\ dbInstance' = TRUE
       /\ vectors' = UpsertAll(entries, batch)
       /\ dbLast' = [op |-> "upsert", batch |-> batch, before |-> entries,
                     repeated |-> (dbLast.op = "upsert" /\ dbLast.batch = batch)]
       /\ UNCHANGED searchOut

\* the response of the search request reaches the client, which may then
\* send its next request
SearchDelivered ==
    /\ searchOut # NoSearch
    /\ searchOut' = NoSearch
    /\ UNCHANGED <<dbInstance, vectors, dbLast>>

\* the random embeddings drawn if this call is the one that seeds the index
Seeds == IF dbInstance THEN {<<0, 0, 0, 0, 0>>} ELSE SeedEmbeddings

VectorNext ==
    \/ \E seed \in Seeds, fill \in QueryFills, topK \in TopKs, filters \in FilterSets,
          generateOk \in BOOLEAN :
            \E scores \in [1..Len(getInstance(seed)) -> ScoreDraws] :
                SearchPOST(seed, fill, scores, topK, filters, generateOk)
    \/ SearchPOSTNoQuery
    \/ SearchDelivered
    \/ searchOut = NoSearch /\ \E seed \in Seeds, batch \in UpsertBatches : upsert(seed, batch)

\* the requests of clients that do not wait for one another: an upsert may
\* run while a search request waits for generateText
InterleavedNext ==
    \/ \E seed \in Seeds, fill \in QueryFills, topK \in {1, MaxTopK}, generateOk \in BOOLEAN :
            \E scores \in [1..Len(getInstance(seed)) -> ScoreDraws] :
                SearchPOST(seed, fill, scores, topK, {}, generateOk)
    \/ SearchPOSTNoQuery
    \/ SearchDelivered
    \/ \E seed \in Seeds, batch \in InterleavedBatches : upsert(seed, batch)

\* ------------------------------------------------------------------------
\* EnhancedDocumentProcessor.intelligentChunking
\* ------------------------------------------------------------------------
chunkSize == 1000

overlap == 200

MaxChunks == 4

\* readings of the clock, in milliseconds after the first
MaxClock == 1

\* the domain argument
ChunkDomains == {"insurance", "legal"}

\* A document text is kept as its length and the offsets (0-based) of its
\* '.' and '\n' characters; every other character is a letter.
TextLengths == {0, 1, 150, 999, 1000, 1001, 1500, 2500}

PeriodOffsets == {699, 700, 701, 1400}

NewlineOffsets == {0, 850}

Contents ==
    {[length |-> n, periods |-> ps, newlines |-> ns] :
        n \in TextLengths,
        ps \in SUBSET PeriodOffsets,
        ns \in SUBSET NewlineOffsets}

WellFormedContent(c) == \A o \in c.periods \cup c.newlines : o < c.length

\* what the assignment to the const endIndex does: the JavaScript semantics is
\* a TypeError at run time; a build that lowers const to var lets it assign
ConstAssignments == {"TypeError", "assigns"}

VARIABLES
    content,      \* the content argument
    chunkDomain,  \* the domain argument
    constAssign,  \* the outcome of assigning to a const in this build
    chunkPc,      \* intelligentChunking: "idle", "loop", "returned", "threw"
    startIndex,   \* loop variable
    chunkIndex,   \* loop variable
    chunks,       \* the chunks array
    now,          \* the clock new Date() reads
    calls,        \* invocations made so far
    previous      \* the chunks array of the invocation before this one

chunkVars == <<content, chunkDomain, constAssign, chunkPc, startIndex, chunkIndex, chunks,
               now, calls, previous>>

NoContent == [length |-> 0, periods |-> {}, newlines |-> {}]

ChunkInit ==
    /\ content = NoContent
    /\ chunkDomain = ""
    /\ constAssign = "assigns"
    /\ chunkPc = "idle"
    /\ startIndex = 0
    /\ chunkIndex = 0
    /\ chunks = <<>>
    /\ now = 0
    /\ calls = 0
    /\ previous = <<>>

\* String.prototype.substring(a, b) on a text of length n, as the span
\* <<from, to>>: arguments clamped to [0, n], swapped if a > b
Substring(n, a, b) ==
    LET ca == Max(0, Min(a, n))
        cb == Max(0, Min(b, n))
    IN <<Min(ca, cb), Max(ca, cb)>>

\* chunkText.lastIndexOf(ch) where chunkText is the span and offsets are the
\* places of ch in the text: relative to the span's start, -1 if none
LastIndexOf(offsets, span) ==
    LET inside == {o \in offsets : span[1] <= o /\ o < span[2]}
    IN IF inside = {} THEN -1
       ELSE (CHOOSE o \in inside : \A p \in inside : p <= o) - span[1]

\* String.prototype.trim() on a span: newlines at both ends are removed
RECURSIVE TrimLeft(_, _)
TrimLeft(c, span) ==
    IF span[1] < span[2] /\ span[1] \in c.newlines
    THEN TrimLeft(c, <<span[1] + 1, span[2]>>)
    ELSE span

RECURSIVE TrimRight(_, _)
TrimRight(c, span) ==
    IF span[1] < span[2] /\ (span[2] - 1) \in c.newlines
    THEN TrimRight(c, <<span[1], span[2] - 1>>)
    ELSE span

Trim(c, span) == TrimRight(c, TrimLeft(c, span))

\* Math.min(startIndex + chunkSize, content.length)
WindowEnd(c, start) == Min(start + chunkSize, c.length)

\* Math.max(lastPeriod, lastNewline) of the window's text
Boundary(c, start) ==
    LET span == Substring(c.length, start, WindowEnd(c, start))
    IN Max(LastIndexOf(c.periods, span), LastIndexOf(c.newlines, span))

\* endIndex < content.length and boundary > chunkSize * 0.7
CutsAtBoundary(c, start) ==
    /\ WindowEnd(c, start) < c.length
    /\ Boundary(c, start) * 10 > chunkSize * 7

\* detectSection: the letters of a modelled text spell none of the section
\* patterns of any domain
detectSection(textSpan, domain) == "general"

\* the chunk object of one iteration; keywords and entities, like section,
\* are computed from chunkText alone and are left out
Chunk(c, start, index, domain, clock) ==
    LET window == Substring(c.length, start, WindowEnd(c, start))
        cut == CutsAtBoundary(c, start)
        textSpan == IF cut THEN <<window[1], window[1] + Boundary(c, start) + 1>> ELSE window
        endIndex == IF cut THEN start + Boundary(c, start) + 1 ELSE WindowEnd(c, start)
    IN [id |-> index,
        text |-> Trim(c, textSpan),
        start_index |-> start,
        end_index |-> endIndex,
        length |-> textSpan[2] - textSpan[1],
        section |-> detectSection(textSpan, domain),
        metadata |-> [chunk_index |-> index, domain |-> domain, created_at |-> clock]]

\* the loop variable did not get past the start of the chunk just pushed:
\* every further iteration starts there again
ChunkLoopStuck ==
    /\ chunkPc = "loop"
    /\ chunks # <<>>
    /\ startIndex < content.length
    /\ startIndex <= chunks[Len(chunks)].start_index

\* an invocation is over: it returned, it threw, or its loop runs for ever
\* and the process is stopped (where the model stops following the loop)
InvocationOver ==
    \/ chunkPc \in {"returned", "threw"}
    \/ ChunkLoopStuck /\ Len(chunks) = MaxChunks

\* the call: the initialisation before the loop. A behaviour follows two
\* invocations; the later one is made by the same build on the same text and
\* domain once the earlier one is over.
intelligentChunking(c, d, mode) ==
    /\ \/ calls = 0 /\ chunkPc = "idle"
       \/ calls = 1 /\ InvocationOver /\ c = content /\ d = chunkDomain /\ mode = constAssign
    /\ WellFormedContent(c)
    /\ content' = c
    /\ chunkDomain' = d
    /\ constAssign' = mode
    /\ chunkPc' = "loop"
    /\ startIndex' = 0
    /\ chunkIndex' = 0
    /\ chunks' = <<>>
    /\ calls' = calls + 1
    /\ previous' = chunks
    /\ UNCHANGED now

\* the clock advances
Tick ==
    /\ now < MaxClock
    /\ now' = now + 1
    /\ UNCHANGED <<content, chunkDomain, constAssign, chunkPc, startIndex, chunkIndex, chunks,
                   calls, previous>>

\* a loop that starts the next window at the cut point
NextStartIndex_NoOverlap(endIndex) == endIndex

\* startIndex = endIndex - overlap
NextStartIndex(endIndex) == endIndex - overlap

\* one iteration of while (startIndex < content.length)
ChunkStep ==
    /\ chunkPc = "loop"
    /\ startIndex < content.length
    /\ Len(chunks) < MaxChunks
    /\ IF CutsAtBoundary(content, startIndex) /\ constAssign = "TypeError"
       THEN /\ chunkPc' = "threw"
            /\ UNCHANGED <<startIndex, chunkIndex, chunks>>
       ELSE /\ chunks' = Append(chunks, Chunk(content, startIndex, chunkIndex, chunkDomain, now))
            /\ chunkIndex' = chunkIndex + 1
            /\ startIndex' = NextStartIndex(
                    Chunk(content, startIndex, chunkIndex, chunkDomain, now).end_index)
            /\ UNCHANGED chunkPc
    /\ UNCHANGED <<content, chunkDomain, constAssign, now, calls, previous>>

\* the loop condition is false: return chunks
ChunkReturn ==
    /\ chunkPc = "loop"
    /\ startIndex >= content.length
    /\ chunkPc' = "returned"
    /\ UNCHANGED <<content, chunkDomain, constAssign, startIndex, chunkIndex, chunks,
                   now, calls, previous>>

ChunkNext ==
    \/ calls = 0 /\ \E c \in Contents, d \in ChunkDomains, mode \in ConstAssignments :
                        intelligentChunking(c, d, mode)
    \/ calls > 0 /\ intelligentChunking(content, chunkDomain, constAssign)
    \/ ChunkStep
    \/ ChunkReturn
    \/ Tick

\* ------------------------------------------------------------------------
\* AdvancedPineconeService (pinecone.ts)
\* ------------------------------------------------------------------------
\* largest topK of a search
MaxSearchTopK == 2

\* a match without a score
NoScore == -1

\* similarity scores the index reports, in hundredths
MatchScores == {NoScore, 50, 100}

\* The entries of the remote index. A string is the sequence of its
\* characters; metadata.text and metadata.keywords may be missing.
PineconeIndex ==
    << [id |-> "doc1#0", hasText |-> TRUE,
        text |-> <<"G", "r", "a", "c", "e", " ", "d", "a", "y", "s">>,
        hasKeywords |-> TRUE, keywords |-> << <<"P", "r", "e", "m", "i", "u", "m">> >>,
        domain |-> "insurance"],
       [id |-> "doc1#1", hasText |-> TRUE,
        text |-> <<"3", "0", " ", "D", "a", "y", "s">>,
        hasKeywords |-> FALSE, keywords |-> <<>>, domain |-> "insurance"],
       [id |-> "doc2#0", hasText |-> FALSE, text |-> <<>>,
        hasKeywords |-> TRUE, keywords |-> << <<"n", "o", "t", "i", "c", "e">> >>,
        domain |-> "legal"] >>

UpperCase == <<"A", "B", "C", "D", "E", "F", "G", "H", "I", "J", "K", "L", "M",
               "N", "O", "P", "Q", "R", "S", "T", "U", "V", "W", "X", "Y", "Z">>

LowerCase == <<"a", "b", "c", "d", "e", "f", "g", "h", "i", "j", "k", "l", "m",
               "n", "o", "p", "q", "r", "s", "t", "u", "v", "w", "x", "y", "z">>

\* String.prototype.toLowerCase
ToLowerCase(str) ==
    [i \in DOMAIN str |->
        IF \E n \in DOMAIN UpperCase : UpperCase[n] = str[i]
        THEN LowerCase[CHOOSE n \in DOMAIN UpperCase : UpperCase[n] = str[i]]
        ELSE str[i]]

\* String.prototype.includes
Includes(str, searchString) ==
    \E i \in 0..(Len(str) - Len(searchString)) :
        SubSeq(str, i + 1, i + Len(searchString)) = searchString

\* keyword lists: none, part of a text, part of a stored keyword after a
\* keyword that is nowhere, a word of two texts
KeywordLists ==
    { <<>>,
      << <<"R", "A", "C", "E">> >>,
      << <<"c", "a", "t">>, <<"P", "R", "E", "M", "I">> >>,
      << <<"d", "a", "y", "s">> >> }

\* semanticWeight and keywordWeight, in tenths: the defaults and an override
WeightPairs == {<<7, 3>>, <<5, 5>>}

PineconeFilters == { {}, {<<"domain", "legal">>} }

MaxUpsertDocs == 2

\* the documents of an upsertVectors call, by id
DocumentBatches == SeqsUpTo({"doc1#0", "doc3#0"}, MaxUpsertDocs)

VARIABLES
    pcOp,        \* the method called: "none", "semanticSearch", "hybridSearch"
    pcArgs,      \* its arguments
    pcPc,        \* "idle", "embedding", "querying", "returned", "threw"
    pcQueries,   \* the requests sent to index.query
    pcSemantic,  \* the ids of the list semanticSearch produced, in its order
    pcReturn,    \* the list returned
    pcError,     \* what rejected: "none", "embedQuery", "query", "upsert"
    pcEmbeds,    \* upsertVectors: the promise of each document's callback
    pcWrites,    \* the vector lists passed to index.upsert, by id
    pcCount      \* the number upsertVectors returned

pcUpsertVars == <<pcEmbeds, pcWrites, pcCount>>

pineconeVars == <<pcOp, pcArgs, pcPc, pcQueries, pcSemantic, pcReturn, pcError, pcUpsertVars>>

NoArgs == [keywords |-> <<>>, semanticWeight |-> 0, keywordWeight |-> 0, topK |-> 0,
           filters |-> {}, documents |-> <<>>]

PineconeInit ==
    /\ pcOp = "none"
    /\ pcArgs = NoArgs
    /\ pcPc = "idle"
    /\ pcQueries = <<>>
    /\ pcSemantic = <<>>
    /\ pcReturn = <<>>
    /\ pcError = "none"
    /\ pcEmbeds = <<>>
    /\ pcWrites = <<>>
    /\ pcCount = 0

\* semanticSearch(query, {topK, filters}) up to its first await
semanticSearch(topK, filters) ==
    /\ pcPc = "idle"
    /\ pcOp' = "semanticSearch"
    /\ pcArgs' = [NoArgs EXCEPT !.topK = topK, !.filters = filters]
    /\ pcPc' = "embedding"
    /\ UNCHANGED <<pcQueries, pcReturn, pcError, pcSemantic, pcUpsertVars>>

\* hybridSearch(query, keywords, {semanticWeight, keywordWeight, topK}) up to
\* the first await of the semanticSearch it calls
hybridSearch(keywords, weights, topK) ==
    /\ pcPc = "idle"
    /\ pcOp' = "hybridSearch"
    /\ pcArgs' = [keywords |-> keywords, semanticWeight |-> weights[1],
                  keywordWeight |-> weights[2], topK |-> topK, filters |-> {},
                  documents |-> <<>>]
    /\ pcPc' = "embedding"
    /\ UNCHANGED <<pcQueries, pcReturn, pcError, pcSemantic, pcUpsertVars>>

\* the topK semanticSearch runs with
SemanticTopK == IF pcOp = "hybridSearch" THEN pcArgs.topK * 2 ELSE pcArgs.topK

\* embedQuery resolves: the search request goes to index.query
EmbedResolves ==
    /\ pcPc = "embedding"
    /\ pcQueries' = Append(pcQueries, [topK |-> SemanticTopK, filters |-> pcArgs.filters])
    /\ pcPc' = "querying"
    /\ UNCHANGED <<pcOp, pcArgs, pcReturn, pcError, pcSemantic, pcUpsertVars>>

\* the bug of catching the embedding error and answering without it
EmbedRejects_ReturnsEmpty ==
    /\ pcPc = "embedding"
    /\ pcPc' = "returned"
    /\ pcError' = "embedQuery"
    /\ pcReturn' = <<>>
    /\ UNCHANGED <<pcOp, pcArgs, pcQueries, pcSemantic, pcUpsertVars>>

\* embedQuery rejects: nothing catches it in semanticSearch or hybridSearch
EmbedRejects ==
    /\ pcPc = "embedding"
    /\ pcPc' = "threw"
    /\ pcError' = "embedQuery"
    /\ UNCHANGED <<pcOp, pcArgs, pcQueries, pcReturn, pcSemantic, pcUpsertVars>>

\* what the index answers: the entries that pass the filter, by score, cut
\* to topK (scores[n] is the score of the n-th entry)
PineconeMatches(scores, request) ==
    LET scored == [n \in 1..Len(PineconeIndex) |->
                      [id |-> PineconeIndex[n].id, score |-> scores[n],
                       metadata |-> PineconeIndex[n]]]
        passes(m) == \A f \in request.filters : f[1] = "domain" /\ m.metadata.domain = f[2]
        kept == SelectSeq(scored, passes)
    IN Slice(SortByScore(kept), request.topK)

\* results.matches?.map(...) || []
SemanticResults(matches) ==
    [n \in 1..Len(matches) |->
        [id |-> matches[n].id,
         score |-> IF matches[n].score = NoScore THEN 0 ELSE matches[n].score,
         hasText |-> matches[n].metadata.hasText,
         text |-> matches[n].metadata.text,
         metadata |-> matches[n].metadata]]

\* a filter that compares the keyword as it was typed
KeywordMatch_CaseSensitive(result, keywords) ==
    \E k \in DOMAIN keywords :
        \/ Includes(result.text, keywords[k])
        \/ /\ result.metadata.hasKeywords
           /\ \E j \in DOMAIN result.metadata.keywords :
                  Includes(result.metadata.keywords[j], keywords[k])

\* the callback of keywordFiltered: some keyword is part of the text or of
\* one of the metadata keywords, all in lower case
KeywordMatch(result, keywords) ==
    \E k \in DOMAIN keywords :
        \/ Includes(ToLowerCase(result.text), ToLowerCase(keywords[k]))
        \/ /\ result.metadata.hasKeywords
           /\ \E j \in DOMAIN result.metadata.keywords :
                  Includes(ToLowerCase(result.metadata.keywords[j]),
                           ToLowerCase(keywords[k]))

\* hybridScore, in thousandths
HybridScore(result, keywords, semanticWeight, keywordWeight) ==
    result.score * semanticWeight
        + (IF KeywordMatch(result, keywords) THEN keywordWeight * 100 ELSE 0)

\* a re-ranking that puts the later of two equal scores first
HybridResults_TiesReversed(semanticResults, args) ==
    LET hybrid == [n \in 1..Len(semanticResults) |->
                      [id |-> semanticResults[Len(semanticResults) + 1 - n].id,
                       semantic |-> semanticResults[Len(semanticResults) + 1 - n].score,
                       score |-> HybridScore(semanticResults[Len(semanticResults) + 1 - n],
                                             args.keywords,
                                             args.semanticWeight, args.keywordWeight)]]
    IN Slice(SortByScore(hybrid), args.topK)

\* hybridResults.sort(...).slice(0, topK), the sort on hybridScore
HybridResults(semanticResults, args) ==
    LET hybrid == [n \in 1..Len(semanticResults) |->
                      [id |-> semanticResults[n].id,
                       semantic |-> semanticResults[n].score,
                       score |-> HybridScore(semanticResults[n], args.keywords,
                                             args.semanticWeight, args.keywordWeight)]]
    IN Slice(SortByScore(hybrid), args.topK)

\* index.query resolves; semanticSearch returns, and hybridSearch with it
QueryResolves(scores, hasMatches) ==
    LET matches == IF hasMatches THEN PineconeMatches(scores, pcQueries[Len(pcQueries)]) ELSE <<>>
        semanticResults == SemanticResults(matches)
    IN /\ pcPc = "querying"
       /\ pcPc' = "returned"
       /\ pcReturn' = IF pcOp = "hybridSearch"
                      THEN HybridResults(semanticResults, pcArgs)
                      ELSE [n \in 1..Len(semanticResults) |->
                               [id |-> semanticResults[n].id,
                                semantic |-> semanticResults[n].score,
                                score |-> semanticResults[n].score]]
       /\ pcSemantic' = [n \in 1..Len(semanticResults) |-> semanticResults[n].id]
       /\ UNCHANGED <<pcOp, pcArgs, pcQueries, pcError, pcUpsertVars>>

\* index.query rejects
QueryRejects ==
    /\ pcPc = "querying"
    /\ pcPc' = "threw"
    /\ pcError' = "query"
    /\ UNCHANGED <<pcOp, pcArgs, pcQueries, pcReturn, pcSemantic, pcUpsertVars>>

\* upsertVectors(documents) up to its first await: documents.map has called
\* every callback, each waits for its embedQuery
upsertVectors(docs) ==
    /\ pcPc = "idle"
    /\ pcOp' = "upsertVectors"
    /\ pcArgs' = [NoArgs EXCEPT !.documents = docs]
    /\ pcEmbeds' = [n \in DOMAIN docs |-> "pending"]
    /\ pcPc' = "embeddingAll"
    /\ UNCHANGED <<pcQueries, pcSemantic, pcReturn, pcError, pcWrites, pcCount>>

\* a callback that writes its vector as soon as it has the embedding
EmbedDocSettles_UpsertsEach(k, ok) ==
    /\ pcOp = "upsertVectors"
    /\ k \in DOMAIN pcEmbeds
    /\ pcEmbeds[k] = "pending"
    /\ pcEmbeds' = [pcEmbeds EXCEPT ![k] = IF ok THEN "resolved" ELSE "rejected"]
    /\ pcWrites' = IF ok THEN Append(pcWrites, <<pcArgs.documents[k]>>) ELSE pcWrites
    /\ UNCHANGED <<pcOp, pcArgs, pcPc, pcQueries, pcSemantic, pcReturn, pcError, pcCount>>

\* the embedQuery of document k settles and its callback returns the vector
\* or rejects
EmbedDocSettles(k, ok) ==
    /\ pcOp = "upsertVectors"
    /\ k \in DOMAIN pcEmbeds
    /\ pcEmbeds[k] = "pending"
    /\ pcEmbeds' = [pcEmbeds EXCEPT ![k] = IF ok THEN "resolved" ELSE "rejected"]
    /\ UNCHANGED <<pcOp, pcArgs, pcPc, pcQueries, pcSemantic, pcReturn, pcError,
                   pcWrites, pcCount>>

\* Promise.all fulfils with the vectors in the order of the documents and
\* upsertVectors calls index.upsert(vectors)
PromiseAllFulfils ==
    /\ pcPc = "embeddingAll"
    /\ \A k \in DOMAIN pcEmbeds : pcEmbeds[k] = "resolved"
    /\ pcWrites' = Append(pcWrites, pcArgs.documents)
    /\ pcPc' = "upserting"
    /\ UNCHANGED <<pcOp, pcArgs, pcQueries, pcSemantic, pcReturn, pcError, pcEmbeds, pcCount>>

\* Promise.all rejects with the first rejection; the await throws out of
\* upsertVectors, the other callbacks go on
PromiseAllRejects ==
    /\ pcPc = "embeddingAll"
    /\ \E k \in DOMAIN pcEmbeds : pcEmbeds[k] = "rejected"
    /\ pcPc' = "threw"
    /\ pcError' = "embedQuery"
    /\ UNCHANGED <<pcOp, pcArgs, pcQueries, pcSemantic, pcReturn, pcEmbeds, pcWrites, pcCount>>

\* index.upsert resolves: return vectors.length
IndexUpsertResolves ==
    /\ pcPc = "upserting"
    /\ pcPc' = "returned"
    /\ pcCount' = Len(pcWrites[Len(pcWrites)])
    /\ UNCHANGED <<pcOp, pcArgs, pcQueries, pcSemantic, pcReturn, pcError, pcEmbeds, pcWrites>>

\* index.upsert rejects
IndexUpsertRejects ==
    /\ pcPc = "upserting"
    /\ pcPc' = "threw"
    /\ pcError' = "upsert"
    /\ UNCHANGED <<pcOp, pcArgs, pcQueries, pcSemantic, pcReturn, pcEmbeds, pcWrites, pcCount>>

PineconeNext ==
    \/ \E topK \in 0..MaxSearchTopK, filters \in PineconeFilters : semanticSearch(topK, filters)
    \/ \E keywords \in KeywordLists, weights \in WeightPairs, topK \in 0..MaxSearchTopK :
            hybridSearch(keywords, weights, topK)
    \/ EmbedResolves
    \/ EmbedRejects
    \/ \E scores \in [1..Len(PineconeIndex) -> MatchScores], hasMatches \in BOOLEAN :
            QueryResolves(scores, hasMatches)
    \/ QueryRejects
    \/ \E docs \in DocumentBatches : upsertVectors(docs)
    \/ \E k \in 1..MaxUpsertDocs, ok \in BOOLEAN : EmbedDocSettles(k, ok)
    \/ PromiseAllFulfils
    \/ PromiseAllRejects
    \/ IndexUpsertResolves
    \/ IndexUpsertRejects

\* ------------------------------------------------------------------------
\* Real-time analysis stream (api/realtime/analysis/route.ts, GET)
\* ------------------------------------------------------------------------
MaxEvents == 3

\* the stage (or type) of the six updates the timer picks from
Updates == {"document_parsing", "entity_extraction", "embedding_generation",
            "semantic_analysis", "insight", "completion"}

VARIABLES
    rtPc,        \* GET: "idle", "streaming" (start has run, the Response is returned)
    rtAborted,   \* request.signal.aborted
    rtListener,  \* the abort listener is registered on request.signal
    rtTimer,     \* the interval set in start is active
    rtStream,    \* the ReadableStream: "none", "readable", "closed"
    rtEnqueued,  \* the events passed to controller.enqueue that it accepted
    rtThrown     \* the controller calls that threw a TypeError

streamVars == <<rtPc, rtAborted, rtListener, rtTimer, rtStream, rtEnqueued, rtThrown>>

StreamInit ==
    /\ rtPc = "idle"
    /\ rtAborted = FALSE
    /\ rtListener = FALSE
    /\ rtTimer = FALSE
    /\ rtStream = "none"
    /\ rtEnqueued = <<>>
    /\ rtThrown = {}

\* GET(request): new ReadableStream calls start at once; start enqueues the
\* connection event, sets the interval and registers the abort listener. A
\* listener added to a signal that is already aborted is never called.
GET(signalAborted) ==
    /\ rtPc = "idle"
    /\ rtPc' = "streaming"
    /\ rtAborted' = signalAborted
    /\ rtStream' = "readable"
    /\ rtEnqueued' = <<"connection">>
    /\ rtTimer' = TRUE
    /\ rtListener' = TRUE
    /\ UNCHANGED rtThrown

\* the interval callback: enqueue one of the updates; enqueue throws on a
\* stream that is no longer readable
IntervalFires(update) ==
    /\ rtTimer
    /\ Len(rtEnqueued) < MaxEvents
    /\ IF rtStream = "readable"
       THEN rtEnqueued' = Append(rtEnqueued, update) /\ UNCHANGED rtThrown
       ELSE rtThrown' = rtThrown \cup {"enqueue"} /\ UNCHANGED rtEnqueued
    /\ UNCHANGED <<rtPc, rtAborted, rtListener, rtTimer, rtStream>>

\* the client disconnects: the signal fires abort once and the listener
\* runs clearInterval(intervalId) and controller.close(), which throws on a
\* stream that is already closed
Abort ==
    /\ rtPc = "streaming"
    /\ ~rtAborted
    /\ rtAborted' = TRUE
    /\ IF rtListener
       THEN /\ rtTimer' = FALSE
            /\ IF rtStream = "readable"
               THEN rtStream' = "closed" /\ UNCHANGED rtThrown
               ELSE rtThrown' = rtThrown \cup {"close"} /\ UNCHANGED rtStream
       ELSE UNCHANGED <<rtTimer, rtStream, rtThrown>>
    /\ UNCHANGED <<rtPc, rtListener, rtEnqueued>>

\* the consumer of the response body cancels the stream; the underlying
\* source has no cancel method
StreamCancel ==
    /\ rtPc = "streaming"
    /\ rtStream = "readable"
    /\ rtStream' = "closed"
    /\ UNCHANGED <<rtPc, rtAborted, rtListener, rtTimer, rtEnqueued, rtThrown>>

StreamNext ==
    \/ \E signalAborted \in BOOLEAN : GET(signalAborted)
    \/ \E update \in Updates : IntervalFires(update)
    \/ Abort
    \/ StreamCancel

\* ------------------------------------------------------------------------
\* Specifications
\* ------------------------------------------------------------------------
vars == <<sessionVars, vectorVars, chunkVars, pineconeVars, streamVars>>

Init == SessionInit /\ VectorInit /\ ChunkInit /\ PineconeInit /\ StreamInit

\* the three parts share no state; a behaviour exercises one of them
SessionUntouched == pqPc = "idle"

VectorUntouched == ~dbInstance /\ searchOut = NoSearch

ChunkUntouched == chunkPc = "idle" /\ now = 0

PineconeUntouched == pcOp = "none"

StreamUntouched == rtPc = "idle"

Next ==
    \/ (SessionNext \/ FanOutNext)
            /\ VectorUntouched /\ ChunkUntouched /\ PineconeUntouched /\ StreamUntouched
            /\ UNCHANGED <<vectorVars, chunkVars, pineconeVars, streamVars>>
    \/ (VectorNext \/ InterleavedNext)
            /\ SessionUntouched /\ ChunkUntouched /\ PineconeUntouched /\ StreamUntouched
            /\ UNCHANGED <<sessionVars, chunkVars, pineconeVars, streamVars>>
    \/ ChunkNext
            /\ SessionUntouched /\ VectorUntouched /\ PineconeUntouched /\ StreamUntouched
            /\ UNCHANGED <<sessionVars, vectorVars, pineconeVars, streamVars>>
    \/ PineconeNext
            /\ SessionUntouched /\ VectorUntouched /\ ChunkUntouched /\ StreamUntouched
            /\ UNCHANGED <<sessionVars, vectorVars, chunkVars, streamVars>>
    \/ StreamNext
            /\ SessionUntouched /\ VectorUntouched /\ ChunkUntouched /\ PineconeUntouched
            /\ UNCHANGED <<sessionVars, vectorVars, chunkVars, pineconeVars>>

Spec == Init /\ [][Next]_vars

\* the question orchestrators alone
SessionSpec == Init /\ [][SessionNext /\ UNCHANGED <<vectorVars, chunkVars, pineconeVars, streamVars>>]_vars

\* batch requests with many questions
FanOutSpec == Init /\ [][FanOutNext /\ UNCHANGED <<vectorVars, chunkVars, pineconeVars, streamVars>>]_vars

\* the vector database alone
VectorSpec == Init /\ [][VectorNext /\ UNCHANGED <<sessionVars, chunkVars, pineconeVars, streamVars>>]_vars

\* the vector database with requests that interleave
InterleavedSpec ==
    Init /\ [][InterleavedNext /\ UNCHANGED <<sessionVars, chunkVars, pineconeVars, streamVars>>]_vars

\* the chunker alone
ChunkSpec == Init /\ [][ChunkNext /\ UNCHANGED <<sessionVars, vectorVars, pineconeVars, streamVars>>]_vars

\* the Pinecone service alone
PineconeSpec == Init /\ [][PineconeNext /\ UNCHANGED <<sessionVars, vectorVars, chunkVars, streamVars>>]_vars

\* the real-time analysis stream alone
StreamSpec ==
    Init /\ [][StreamNext /\ UNCHANGED <<sessionVars, vectorVars, chunkVars, pineconeVars>>]_vars

\* ------------------------------------------------------------------------
\* Properties
\* ------------------------------------------------------------------------
InputOrder(n) == [j \in 1..n |-> j]

\* C1: when processQuestions returns in batch mode, results has the length of
\* the question list and results[i].question is questions[i] for every i,
\* whatever the order in which the per-question promises settled.
C1_BatchOrderPreserved ==
    (pqPc = "returned" /\ options.batch_mode) =>
        /\ Len(response.results) = Len(questions)
        /\ \A n \in 1..Len(questions) : response.results[n].question = questions[n]

\* a batch of three questions, not all equal, returned after its promises
\* settled in another order than the input order
C1_Witness ==
    /\ pqPc = "returned"
    /\ options.batch_mode
    /\ Len(questions) = 3
    /\ questions[1] # questions[3]
    /\ settleOrder # InputOrder(3)
    /\ Len(response.results) = 3

\* a question whose processing failed: its promise settled and
\* generateContextualResponse threw on it
FailedQuestions ==
    {k \in DOMAIN taskState :
        /\ taskState[k] \in {"resolved", "rejected"}
        /\ ResponseThrows(questions[k], documents, options.domain)}

\* C2 (as claimed): when the processing of a question fails, processQuestions
\* does not throw, and what it returns has one record per question: the error
\* record (confidence 0, error flag, fallback answer) for a failed question,
\* a normal record for every other.
C2_FailureIsolated ==
    FailedQuestions # {} =>
        /\ pqPc # "threw"
        /\ pqPc = "returned" =>
            /\ Len(response.results) = Len(questions)
            /\ \A k \in 1..Len(questions) :
                IF k \in FailedQuestions
                THEN /\ response.results[k].error
                     /\ response.results[k].confidence = 0
                     /\ response.results[k].answer = ErrorRecord(questions[k], k - 1, options).answer
                ELSE ~response.results[k].error

RECURSIVE CountCompleted(_)
CountCompleted(rs) ==
    IF rs = <<>> THEN 0
    ELSE (IF Head(rs).error THEN 0 ELSE 1) + CountCompleted(Tail(rs))

\* C3 (as claimed): the success rate reported for a batch is the number of
\* questions completed without error divided by the number of questions.
C3_SuccessRateIsRatio ==
    stats.set =>
        stats.success_rate[1] * Len(response.results)
            = CountCompleted(response.results) * stats.success_rate[2]

NonIncreasingScores(rs) == \A n \in 1..(Len(rs) - 1) : rs[n].score >= rs[n + 1].score

SearchRan == searchOut.status \in {200, 500}

\* C4: VectorDatabase.query with topK = K >= 0 returns exactly
\* min(K, number of entries stored when it ran) results, in non-increasing
\* order of score.
C4_TopK ==
    SearchRan =>
        /\ Len(searchOut.searchResults) = Min(searchOut.topK, Len(searchOut.indexAtQuery))
        /\ NonIncreasingScores(searchOut.searchResults)

\* a query that had to cut and to order: fewer results than entries, and the
\* entry stored first is neither first nor absent
C4_Witness ==
    /\ SearchRan
    /\ searchOut.topK = 3
    /\ Len(searchOut.indexAtQuery) > 3
    /\ searchOut.searchResults[1].score > searchOut.searchResults[3].score
    /\ searchOut.searchResults[3].id = "chunk_1"

\* the scored entries of the last search that satisfy its filter
Candidates == {n \in DOMAIN searchOut.scored : MatchesFilters(searchOut.scored[n], searchOut.filters)}

\* C5 (as claimed): a search with filter F and topK = K returns exactly
\* min(K, number of stored entries satisfying F) results, all of them satisfy
\* F, and no candidate left out scores higher than a returned one.
C5_FilteredTopK ==
    searchOut.status = 200 =>
        /\ Len(searchOut.results) = Min(searchOut.topK, Cardinality(Candidates))
        /\ \A n \in DOMAIN searchOut.results : MatchesFilters(searchOut.results[n], searchOut.filters)
        /\ \A n \in DOMAIN searchOut.results : \A c \in Candidates :
                \/ searchOut.scored[c].score <= searchOut.results[n].score
                \/ \E m \in DOMAIN searchOut.results : searchOut.results[m].id = searchOut.scored[c].id

UpsertOfStoredId ==
    /\ dbLast.op = "upsert"
    /\ Len(dbLast.batch) = 1
    /\ dbLast.batch[1].id \in Ids(dbLast.before)

\* C6: an upsert of one entry whose id is stored leaves the number of entries
\* unchanged, puts the given values and metadata under that id and leaves
\* every other entry as it was; an upsert that repeats the upsert before it
\* leaves the index as that one left it.
C6_UpsertReplaces ==
    /\ UpsertOfStoredId =>
        /\ Len(vectors) = Len(dbLast.before)
        /\ \A n \in DOMAIN vectors :
            IF dbLast.before[n].id = dbLast.batch[1].id
            THEN vectors[n] = dbLast.batch[1]
            ELSE vectors[n] = dbLast.before[n]
    /\ (dbLast.op = "upsert" /\ dbLast.repeated) => vectors = dbLast.before

\* the same entry was upserted twice in a row under the id of a sample chunk,
\* and the index holds its values and metadata, not the sample's
C6_Witness ==
    /\ UpsertOfStoredId
    /\ dbLast.repeated
    /\ dbLast.batch[1].id = "chunk_1"
    /\ vectors[1].metadata # sampleChunks[1].metadata
    /\ vectors[1].values = dbLast.batch[1].values
    /\ Len(vectors) = Len(sampleChunks)

\* C7 (as claimed): no entry whose embedding has another length than the
\* index's is ever stored: an upsert of such an entry fails and leaves the
\* entries unchanged.
C7_DimensionGuard ==
    /\ \A n \in DOMAIN vectors : vectors[n].values.length = EmbeddingLength
    /\ (dbLast.op = "upsert"
        /\ \E n \in DOMAIN dbLast.batch : dbLast.batch[n].values.length # EmbeddingLength)
            => vectors = dbLast.before

CoversText(cs, c) ==
    cs # <<>> =>
        /\ cs[1].start_index = 0
        /\ \A n \in 2..Len(cs) : cs[n].start_index <= cs[n - 1].end_index
        /\ cs[Len(cs)].end_index = c.length

\* C8 (as claimed): for every text the call returns chunks that cover it: the
\* loop keeps advancing until it returns, and the returned chunks start at 0,
\* leave no gap and end at the end of the text.
C8_ReturnsCoveringChunks ==
    /\ ~ChunkLoopStuck
    /\ chunkPc = "returned" => CoversText(chunks, content)

\* C9 (as claimed): for a non-empty text shorter than chunkSize the call
\* produces exactly one chunk, which spans the whole text.
C9_ShortTextOneChunk ==
    (chunkPc # "idle" /\ 0 < content.length /\ content.length < chunkSize) =>
        /\ Len(chunks) <= 1
        /\ chunkPc = "returned" =>
            /\ Len(chunks) = 1
            /\ chunks[1].start_index = 0
            /\ chunks[1].end_index = content.length

\* C10 (as claimed): a text of 2500 characters is cut into exactly 3 chunks.
C10_ThreeChunksFor2500 ==
    (chunkPc # "idle" /\ content.length = 2500) =>
        /\ Len(chunks) <= 3
        /\ chunkPc = "returned" => Len(chunks) = 3

\* C11 (as claimed): an invocation of intelligentChunking on the text and
\* domain of the invocation before it produces the same chunks, field for
\* field, whatever the clock reads: the lists agree chunk by chunk as far as
\* both were built, and a returned list equals the earlier one.
C11_SameChunksAgain ==
    calls > 1 =>
        /\ \A n \in 1..Min(Len(chunks), Len(previous)) : chunks[n] = previous[n]
        /\ chunkPc = "returned" => chunks = previous

\* the values of the stored entries are pairwise distinct
PairwiseDistinct(entries) ==
    \A m, n \in DOMAIN entries : m # n => entries[m].values # entries[n].values

\* C12 (as claimed): a query with topK = 1 whose vector equals the stored
\* vector of an entry of an index of pairwise distinct vectors returns exactly
\* one result, and it is that entry.
C12_SelfQueryTop1 ==
    \A n \in DOMAIN searchOut.indexAtQuery :
        (/\ SearchRan
         /\ searchOut.topK = 1
         /\ PairwiseDistinct(searchOut.indexAtQuery)
         /\ searchOut.queryEmbedding = searchOut.indexAtQuery[n].values)
            => /\ Len(searchOut.searchResults) = 1
               /\ searchOut.searchResults[1].id = searchOut.indexAtQuery[n].id

\* the contents the index has between whole upsert calls of the batches
\* that interleaving clients send: what up to n calls make of the contents S
\* (a call of a batch sent before changes nothing, so one round for each
\* batch reaches them all)
RECURSIVE UpsertClosure(_, _)
UpsertClosure(S, n) ==
    IF n = 0 THEN S
    ELSE UpsertClosure(S \cup {UpsertAll(x, b) : x \in S, b \in InterleavedBatches}, n - 1)

WholeIndexStates ==
    UpsertClosure({initializeWithSampleData(seed) : seed \in SeedEmbeddings},
                  Cardinality(InterleavedBatches))

\* C13: whatever upserts run before, while and after a search request, what
\* its query returned is taken from the index as it was at one point between
\* whole upsert calls: every returned entry is an entry of that index, with
\* the values and the metadata stored together, and no id is returned twice.
C13_QueryReadsOnePoint ==
    SearchRan =>
        /\ searchOut.indexAtQuery \in WholeIndexStates
        /\ \A k \in DOMAIN searchOut.searchResults :
              \E n \in DOMAIN searchOut.indexAtQuery :
                  searchOut.indexAtQuery[n] =
                      [id |-> searchOut.searchResults[k].id,
                       values |-> searchOut.searchResults[k].values,
                       metadata |-> searchOut.searchResults[k].metadata]
        /\ \A j, k \in DOMAIN searchOut.searchResults :
              j # k => searchOut.searchResults[j].id # searchOut.searchResults[k].id

\* a search request that waits while a batch of two replaces an entry it
\* returned: the result has the entry as it was, the index as it is now
C13_Witness ==
    /\ SearchRan
    /\ dbLast.op = "upsert"
    /\ Len(dbLast.batch) = 2
    /\ vectors # searchOut.indexAtQuery
    /\ \E k \in DOMAIN searchOut.searchResults :
          /\ searchOut.searchResults[k].id = "chunk_1"
          /\ searchOut.searchResults[k].values # vectors[IndexOfId(vectors, "chunk_1")].values

\* C14: once embedQuery has failed in semanticSearch or hybridSearch, the
\* call has thrown: no request went to the index and no list was returned.
C14_EmbedFailureFailsSearch ==
    pcError = "embedQuery" =>
        /\ pcPc = "threw"
        /\ pcQueries = <<>>
        /\ pcReturn = <<>>

\* a hybrid search with keywords whose embedding failed
C14_Witness ==
    /\ pcOp = "hybridSearch"
    /\ pcArgs.keywords # <<>>
    /\ pcArgs.topK > 0
    /\ pcError = "embedQuery"
    /\ pcPc = "threw"

\* the questions whose processIndividualQuestion was called and whose result
\* is not yet in results
InFlight == {j \in DOMAIN taskState : taskState[j] # "unstarted" /\ j > Len(results)}

\* C15: in sequential mode at most one question is in flight, question i+1
\* is started only when the result of question i is in results, and the
\* results are those of the questions in input order.
C15_SequentialOneAtATime ==
    (pqPc # "idle" /\ ~options.batch_mode) =>
        /\ Cardinality(InFlight) <= 1
        /\ \A j \in DOMAIN taskState : taskState[j] # "unstarted" => Len(results) >= j - 1
        /\ Len(results) <= Len(questions)
        /\ \A n \in DOMAIN results : results[n].question = questions[n]
        /\ settleOrder = InputOrder(Len(settleOrder))

\* a sequential run of three questions that returned, the second of them
\* answered with an error record
C15_Witness ==
    /\ pqPc = "returned"
    /\ ~options.batch_mode
    /\ Len(questions) = 3
    /\ Len(response.results) = 3
    /\ response.results[2].error
    /\ ~response.results[3].error

\* C16 (as claimed): in batch mode the number of questions in flight never
\* exceeds the concurrency cap, however many questions the request has. No
\* cap is configured in the code; 10 is the largest default the design names.
C16_BatchFanOutCapped ==
    (pqPc # "idle" /\ options.batch_mode) =>
        Cardinality({j \in DOMAIN taskState : taskState[j] = "waiting"}) <= 10

\* the sum of field f over the first n records of rs
RECURSIVE TotalUpTo(_, _, _)
TotalUpTo(rs, f, n) == IF n = 0 THEN 0 ELSE TotalUpTo(rs, f, n - 1) + rs[n][f]

\* C17: when processQuestions returns, metadata.total_questions is the number
\* of returned results, total_tokens the sum of their tokens_used and
\* total_cost the sum of their cost_estimate; an error record counts as a
\* result and adds 0 tokens and 0 cost.
C17_MetadataTotals ==
    pqPc = "returned" =>
        LET rs == response.results
        IN /\ response.metadata.total_questions = Len(rs)
           /\ response.metadata.total_tokens = TotalUpTo(rs, "tokens_used", Len(rs))
           /\ response.metadata.total_cost = TotalUpTo(rs, "cost_estimate", Len(rs))
           /\ \A n \in DOMAIN rs : rs[n].error => rs[n].tokens_used = 0 /\ rs[n].cost_estimate = 0

\* a returned batch of an answer, an error record and another answer
C17_Witness ==
    /\ pqPc = "returned"
    /\ options.batch_mode
    /\ Len(response.results) = 3
    /\ ~response.results[1].error
    /\ response.results[2].error
    /\ ~response.results[3].error
    /\ response.metadata.total_tokens
            = response.results[1].tokens_used + response.results[3].tokens_used
    /\ response.metadata.total_cost > response.results[1].cost_estimate

\* the service has a configuration for the model
ModelConfigured(service, modelId) ==
    IF service = "MultiAI" THEN getModelConfig(modelId).defined
    ELSE modelId \in DOMAIN EnhancedModels

\* C18 (as claimed): a call that names a model with no configuration has
\* failed as soon as it is made: no question was started, there are no
\* results, and the error names the unsupported model.
C18_UnsupportedModelRejected ==
    (pqPc # "idle" /\ ~ModelConfigured(svc, options.model)) =>
        /\ pqPc = "threw"
        /\ \A j \in DOMAIN taskState : taskState[j] = "unstarted"
        /\ results = <<>>
        /\ Len(response.message) = 3
        /\ response.message[2] = "Unsupported model"
        /\ response.message[3] = options.model

\* C19 (as claimed): the compliance_status of an answer is one of the four
\* values and is determined by the question, the domain and the documents:
\* two answers to the same question in one request have the same status.
C19_ComplianceDeterministic ==
    pqPc = "returned" =>
        /\ \A n \in DOMAIN response.results :
              ~response.results[n].error =>
                  response.results[n].compliance_status
                      \in {"compliant", "non-compliant", "unclear", "requires_review"}
        /\ \A m, n \in DOMAIN response.results :
              (/\ response.results[m].question = response.results[n].question
               /\ ~response.results[m].error
               /\ ~response.results[n].error)
                  => response.results[m].compliance_status = response.results[n].compliance_status

\* C20 (as claimed): intelligentChunking terminates and returns the chunk
\* list. An iteration is determined by startIndex alone, so the loop ends
\* exactly if startIndex never takes a value below content.length that it
\* had at the start of an earlier iteration; and the call does not throw.
C20_ChunkingTerminates ==
    /\ chunkPc # "threw"
    /\ (chunkPc = "loop" /\ startIndex < content.length) =>
            \A n \in DOMAIN chunks : chunks[n].start_index # startIndex

\* C21: of every two consecutive chunks of one invocation the later one starts
\* at the end_index of the earlier one minus the overlap of 200.
C21_NextStartIsCutMinusOverlap ==
    \A n \in 2..Len(chunks) : chunks[n].start_index = chunks[n - 1].end_index - 200

\* two chunks, the first one cut at a sentence boundary before the window edge
C21_Witness ==
    /\ Len(chunks) >= 2
    /\ chunks[1].end_index < chunkSize
    /\ chunks[2].start_index = chunks[1].end_index - 200

\* C22 (as claimed): a chunk whose window does not reach the end of the text
\* and whose last '.' or newline lies at offset b of the window ends right
\* after that boundary exactly when b >= 700, and at the window edge otherwise.
C22_CutsFromOffset700 ==
    \A n \in DOMAIN chunks :
        LET start == chunks[n].start_index
            b == Boundary(content, start)
        IN WindowEnd(content, start) < content.length =>
                chunks[n].end_index = IF b >= 700 THEN start + b + 1
                                                  ELSE start + chunkSize

\* C23 (as claimed): every chunk has 0 <= start_index < end_index <= text
\* length, and its length field is end_index - start_index.
C23_ChunkBounds ==
    \A n \in DOMAIN chunks :
        /\ 0 <= chunks[n].start_index
        /\ chunks[n].start_index < chunks[n].end_index
        /\ chunks[n].end_index <= content.length
        /\ chunks[n].length = chunks[n].end_index - chunks[n].start_index

\* two characters that are the same letter in either case
SameLetter(a, b) ==
    \/ a = b
    \/ \E n \in DOMAIN UpperCase : {a, b} = {UpperCase[n], LowerCase[n]}

\* needle occurs in hay at some position, letters compared without case
OccursIgnoringCase(needle, hay) ==
    \E i \in 1..(Len(hay) + 1) :
        \A j \in 1..Len(needle) :
            /\ i + j - 1 <= Len(hay)
            /\ SameLetter(hay[i + j - 1], needle[j])

\* the keyword overlap indicator of the index entry with this id
KeywordIndicator(id, keywords) ==
    LET entry == PineconeIndex[CHOOSE n \in DOMAIN PineconeIndex : PineconeIndex[n].id = id]
    IN IF \E k \in DOMAIN keywords :
              \/ entry.hasText /\ OccursIgnoringCase(keywords[k], entry.text)
              \/ /\ entry.hasKeywords
                 /\ \E j \in DOMAIN entry.keywords :
                        OccursIgnoringCase(keywords[k], entry.keywords[j])
       THEN 1 ELSE 0

\* C24: every result of hybridSearch has the score semanticWeight * similarity
\* + keywordWeight * k, k = 1 when some keyword occurs without regard to case
\* in the text or in a stored keyword of the candidate and 0 otherwise; k is
\* 0 for an empty keyword list. (Scores in thousandths.)
C24_HybridScore ==
    (pcOp = "hybridSearch" /\ pcPc = "returned") =>
        \A n \in DOMAIN pcReturn :
            /\ pcReturn[n].score =
                    pcArgs.semanticWeight * pcReturn[n].semantic
                        + pcArgs.keywordWeight * 100 * KeywordIndicator(pcReturn[n].id, pcArgs.keywords)
            /\ pcArgs.keywords = <<>> =>
                    pcReturn[n].score = pcArgs.semanticWeight * pcReturn[n].semantic

\* a keyword in capitals found inside a stored keyword lifts one result and
\* not the other
C24_Witness ==
    /\ pcOp = "hybridSearch"
    /\ pcPc = "returned"
    /\ Len(pcArgs.keywords) = 2
    /\ Len(pcReturn) = 2
    /\ KeywordIndicator(pcReturn[1].id, pcArgs.keywords) = 1
    /\ KeywordIndicator(pcReturn[2].id, pcArgs.keywords) = 0
    /\ pcReturn[1].semantic < pcReturn[2].semantic

\* the place of an id in the list semanticSearch produced
SemanticPosition(id) == CHOOSE n \in DOMAIN pcSemantic : pcSemantic[n] = id

\* C25: hybridSearch returns at most topK results in non-increasing order of
\* hybrid score, and results of equal hybrid score are in the order they had
\* in the semantic search result.
C25_StableReRanking ==
    (pcOp = "hybridSearch" /\ pcPc = "returned") =>
        /\ Len(pcReturn) <= pcArgs.topK
        /\ \A m, n \in DOMAIN pcReturn :
              m < n =>
                /\ pcReturn[m].score >= pcReturn[n].score
                /\ pcReturn[m].score = pcReturn[n].score =>
                        SemanticPosition(pcReturn[m].id) < SemanticPosition(pcReturn[n].id)

\* more candidates than topK, and two results of equal hybrid score of which
\* only the second has a keyword
C25_Witness ==
    /\ pcOp = "hybridSearch"
    /\ pcPc = "returned"
    /\ Len(pcSemantic) > pcArgs.topK
    /\ Len(pcReturn) = 2
    /\ pcReturn[1].score = pcReturn[2].score
    /\ KeywordIndicator(pcReturn[1].id, pcArgs.keywords) = 0
    /\ KeywordIndicator(pcReturn[2].id, pcArgs.keywords) = 1

\* the keys of the insurance templates of the running service
InsuranceTemplates ==
    LET table == IF svc = "MultiAI" THEN MultiDomainResponses.insurance
                 ELSE EnhancedDomainResponses.insurance
    IN {table[n].key : n \in DOMAIN table}

\* C26 (as claimed): whatever the domain key, a question that is otherwise
\* processable (a string, documents present, a configured model) gets an
\* answer and no error record or rejection, and for a key outside
\* insurance/legal/hr the answer is one of the insurance templates.
C26_AnyDomainAnswers ==
    \A k \in DOMAIN taskState :
        ( /\ taskState[k] \in {"resolved", "rejected"}
          /\ IsString(questions[k])
          /\ \A n \in DOMAIN documents : documents[n] # Undefined
          /\ svc = "EnhancedLLM" => options.model \in DOMAIN EnhancedModels )
        => /\ taskState[k] = "resolved"
           /\ ~taskValue[k].error
           /\ options.domain \notin {"insurance", "legal", "hr"} =>
                    taskValue[k].answer \in InsuranceTemplates

\* C27: every record processQuestions returns, normal or error, has a
\* confidence within [0, 1] (thousandths here), for every provider and draw.
C27_ConfidenceInUnitInterval ==
    /\ \A k \in DOMAIN taskValue :
          taskState[k] = "resolved" => taskValue[k].confidence \in 0..1000
    /\ pqPc = "returned" =>
          \A n \in DOMAIN response.results : response.results[n].confidence \in 0..1000

\* a returned list with an error record of confidence 0 and a normal record
\* made with the highest draw
C27_Witness ==
    /\ pqPc = "returned"
    /\ \E m, n \in DOMAIN response.results :
          /\ response.results[m].error
          /\ response.results[m].confidence = 0
          /\ ~response.results[n].error
          /\ response.results[n].confidence = 820 + 80 + 45

\* C28: upsertVectors is all-or-nothing for embedding failures: while the
\* embedding of a document of the batch has failed nothing was written, and
\* once the failure is noticed the call has thrown; a call that returns has
\* passed all documents, in their order, to one index.upsert and returns
\* their number.
C28_UpsertAllOrNothing ==
    pcOp = "upsertVectors" =>
        /\ (\E k \in DOMAIN pcEmbeds : pcEmbeds[k] = "rejected") =>
                /\ pcWrites = <<>>
                /\ pcPc \in {"embeddingAll", "threw"}
        /\ pcError = "embedQuery" => pcPc = "threw" /\ pcWrites = <<>>
        /\ pcPc = "returned" =>
                /\ pcWrites = <<pcArgs.documents>>
                /\ pcCount = Len(pcArgs.documents)

\* a batch of two whose first embedding succeeded and whose second failed,
\* after the call has thrown
C28_Witness ==
    /\ pcOp = "upsertVectors"
    /\ Len(pcArgs.documents) = 2
    /\ pcEmbeds = <<"resolved", "rejected">>
    /\ pcPc = "threw"
    /\ pcWrites = <<>>

\* C29 (as claimed): the first event enqueued is the connection event, and
\* while the request is aborted, also when it was aborted before the stream
\* started, the timer is cleared, the stream is closed and no event is
\* enqueued any more.
C29_AbortEndsStream ==
    /\ [](rtEnqueued # <<>> => rtEnqueued[1] = "connection")
    /\ []((rtPc = "streaming" /\ rtAborted) => (~rtTimer /\ rtStream = "closed"))
    /\ [][(rtPc = "streaming" /\ rtAborted) => rtEnqueued' = rtEnqueued]_vars

\* the entries of a batch, as a set
BatchEntries(batch) == {batch[n] : n \in DOMAIN batch}

\* C30: the call of getInstance that creates the instance seeds the five
\* sample chunks; no later call seeds again: from then on every stored entry
\* stays as it is under its id unless the step is an upsert that replaces it,
\* so what an upsert stored is what later queries read.
C30_SeededOnce ==
    [][ /\ (~dbInstance /\ dbInstance' /\ dbLast'.op = "query") =>
              [n \in DOMAIN vectors' |-> vectors'[n].id] =
                  [n \in DOMAIN sampleChunks |-> sampleChunks[n].id]
        /\ dbInstance =>
              /\ dbInstance'
              /\ \A n \in DOMAIN vectors :
                    \E m \in DOMAIN vectors' :
                        /\ vectors'[m].id = vectors[n].id
                        /\ \/ vectors'[m] = vectors[n]
                           \/ /\ dbLast'.op = "upsert"
                              /\ vectors'[m] \in BatchEntries(dbLast'.batch)
              /\ Len(searchOut'.indexAtQuery) > 0 =>
                    \/ searchOut'.indexAtQuery = vectors
                    \/ searchOut' = searchOut ]_vars

\* a search made after an upsert of a new id and of a sample's id reads the
\* five samples and the new entry, the replaced sample with the new values
C30_Witness ==
    /\ searchOut.status = 200
    /\ Len(searchOut.indexAtQuery) = Len(sampleChunks) + 1
    /\ searchOut.indexAtQuery[Len(sampleChunks) + 1].id = "chunk_9"
    /\ searchOut.indexAtQuery[1].id = "chunk_1"
    /\ searchOut.indexAtQuery[1].metadata # sampleChunks[1].metadata

====
